---- MODULE Spec2Model ----
(***************************************************************************)
(* Model of backend/app.py (GridGuard): the /risk request pipeline and the *)
(* scoring functions it is built from.                                     *)
(*                                                                         *)
(* Numbers.  Every weather quantity is kept in TENTHS of its unit (150 is  *)
(* 15.0 degrees C, 250 is 25.0 km/h, 15 is 1.5 mm), because the forecast   *)
(* adapter rounds to one decimal.  Arithmetic is exact rational arithmetic *)
(* on integers; binary floating-point rounding error is not modelled.      *)
(* A Python number is a record [v |-> tenths, t |-> type] where t is       *)
(* "int", "float", "negzero" (the float -0.0) or "huge" (an int beyond the *)
(* range of a float, whose mixing with a float raises OverflowError).      *)
(***************************************************************************)
EXTENDS Integers, Sequences, FiniteSets, TLC

----------------------------------------------------------------------------
(* Bounds of the model                                                     *)

MaxHist == 2
MaxIntervals == 2

----------------------------------------------------------------------------
(* Arithmetic helpers                                                      *)

Abs(x) == IF x < 0 THEN -x ELSE x

Min2(a, b) == IF a < b THEN a ELSE b

RECURSIVE SumSeq(_)
SumSeq(s) == IF s = <<>> THEN 0 ELSE Head(s) + SumSeq(Tail(s))

RECURSIVE MapTemp(_)
MapTemp(h) == IF h = <<>> THEN <<>> ELSE <<Head(h).temp>> \o MapTemp(Tail(h))

RECURSIVE MapWind(_)
MapWind(h) == IF h = <<>> THEN <<>> ELSE <<Head(h).wind_speed>> \o MapWind(Tail(h))

RECURSIVE MapPrecip(_)
MapPrecip(h) == IF h = <<>> THEN <<>> ELSE <<Head(h).precipitation>> \o MapPrecip(Tail(h))

(* Python round(num/den, 0) on an exact quotient: round half to even. *)
RoundHalfEven(num, den) ==
    LET q == num \div den
        r == num - q * den
    IN  IF 2 * r < den THEN q
        ELSE IF 2 * r > den THEN q + 1
        ELSE IF q % 2 = 0 THEN q ELSE q + 1

(* A Python float with one decimal, value num/den tenths, after round(.,1);
   a negative quotient that rounds to zero is the float -0.0. *)
RoundedFloat(num, den) ==
    LET q == RoundHalfEven(num, den)
    IN  IF q = 0 /\ num < 0 THEN [v |-> 0, t |-> "negzero"]
        ELSE [v |-> q, t |-> "float"]

PyFloat(x) == [v |-> x, t |-> "float"]

PyInt(x) == [v |-> 10 * x, t |-> "int"]

HugeInt == [v |-> 0, t |-> "huge"]

(* str() of a Python number, as an f-string prints it. *)
Fmt(n) ==
    IF n.t = "huge" THEN "1" \o "0...0"
    ELSE IF n.t = "int" THEN ToString(n.v \div 10)
    ELSE IF n.t = "negzero" THEN "-0.0"
    ELSE (IF n.v < 0 THEN "-" ELSE "") \o ToString(Abs(n.v) \div 10)
           \o "." \o ToString(Abs(n.v) % 10)

(* f"{x:.1f}" of the exact quotient num/den tenths. *)
FmtFixed1(num, den) == Fmt(RoundedFloat(num, den))

(* Comparisons of a Python number with a literal given in tenths; a huge
   int compares as larger than every literal. *)
NumGt(n, k) == IF n.t = "huge" THEN TRUE ELSE n.v > k

NumLt(n, k) == IF n.t = "huge" THEN FALSE ELSE n.v < k

----------------------------------------------------------------------------
(* Reference data (neighborhoods.json, historical_outages.json)            *)

neighborhoods ==
    << [id |-> "n1", name |-> "Old Town", lat |-> 40, lng |-> -74,
        vulnerability_score |-> 10, infrastructure_age |-> 80],
       [id |-> "n2", name |-> "Riverside", lat |-> 41, lng |-> -73,
        vulnerability_score |-> 0, infrastructure_age |-> 0],
       [id |-> "n3", name |-> "Hillcrest", lat |-> 42, lng |-> -72,
        vulnerability_score |-> 5, infrastructure_age |-> 25] >>

(* next((n for n in neighborhoods if n['id'] == neighborhood_id), None):
   the sequence of matches; empty stands for None, Head is the match. *)
FindNeighborhood(nid) == SelectSeq(neighborhoods, LAMBDA n : n.id = nid)

HistRecord(nid, t, w, p, o) ==
    [neighborhood_id |-> nid, temp |-> t, wind_speed |-> w,
     precipitation |-> p, outage_occurred |-> o]

(* The records a historical_outages.json may hold. *)
HistCatalogue ==
    { HistRecord("n1", 150, 250, 15, TRUE),
      HistRecord("n1", 150, 1250, 15, FALSE),
      HistRecord("n1", -100, 720, 50, TRUE),
      HistRecord("n2", 150, 250, 15, FALSE),
      HistRecord("n2", 200, 100, 0, TRUE),
      HistRecord("zz", 150, 250, 15, TRUE) }

RECURSIVE SeqsUpTo(_, _)
SeqsUpTo(S, n) ==
    IF n = 0 THEN { <<>> }
    ELSE LET shorter == SeqsUpTo(S, n - 1)
         IN  shorter \cup { Append(s, x) : s \in shorter, x \in S }

----------------------------------------------------------------------------
(* Weather provider: what requests.get(url, timeout=10) can come back with *)

NoRain == [v |-> 0, t |-> "absent"]

Interval(ok, t, s, r) == [valid |-> ok, temp |-> t, speed |-> s, rain |-> r]

(* 3-hour entries of the provider's 'list': temp in tenths of a degree,
   wind speed in tenths of m/s, rain['3h'] absent, int, float or an int too
   large for a float; valid = FALSE is an entry without 'main' or 'wind'. *)
IntervalCatalogue ==
    { Interval(TRUE, 150, 69, NoRain),
      Interval(TRUE, 150, 70, PyFloat(15)),
      Interval(TRUE, -100, 200, PyFloat(50)),
      Interval(TRUE, 380, 150, PyInt(3)),
      Interval(TRUE, 150, 70, HugeInt),
      Interval(FALSE, 0, 0, NoRain) }

(* A forecast of nine entries: only the first eight are used. *)
LongForecast ==
    << Interval(TRUE, 150, 70, PyFloat(15)), Interval(TRUE, 150, 70, NoRain),
       Interval(TRUE, 150, 70, NoRain), Interval(TRUE, 150, 70, NoRain),
       Interval(TRUE, 150, 70, NoRain), Interval(TRUE, 150, 70, NoRain),
       Interval(TRUE, 150, 70, NoRain), Interval(TRUE, 150, 70, NoRain),
       Interval(TRUE, 400, 300, PyFloat(90)) >>

FailureKinds == { "network_error", "timeout", "http_error", "bad_json", "no_list" }

WeatherResponses ==
    { [kind |-> k, list |-> <<>>] : k \in FailureKinds }
    \cup { [kind |-> "ok", list |-> l] :
             l \in SeqsUpTo(IntervalCatalogue, MaxIntervals) \cup { LongForecast } }

(* What the caller can tell about one provider response. *)
OutcomeOf(resp) ==
    IF resp.kind # "ok" THEN resp.kind
    ELSE IF resp.list = <<>> THEN "empty_list"
    ELSE "ok"

FallbackWeather ==
    [temp |-> PyFloat(150), wind_speed |-> PyFloat(250), precipitation |-> PyFloat(15)]

RECURSIVE MapIntervalTemp(_)
MapIntervalTemp(l) ==
    IF l = <<>> THEN <<>> ELSE <<Head(l).temp>> \o MapIntervalTemp(Tail(l))

RECURSIVE MapIntervalSpeed(_)
MapIntervalSpeed(l) ==
    IF l = <<>> THEN <<>> ELSE <<Head(l).speed>> \o MapIntervalSpeed(Tail(l))

RECURSIVE MapIntervalRain(_)
MapIntervalRain(l) ==
    IF l = <<>> THEN <<>> ELSE <<Head(l).rain.v>> \o MapIntervalRain(Tail(l))

(* sum(rains) raises OverflowError when a huge int meets a float. *)
RainSumRaises(l) ==
    /\ \E i \in 1..Len(l) : l[i].rain.t = "huge"
    /\ \E i \in 1..Len(l) : l[i].rain.t = "float"

(* round(sum(rains), 1): an int sum stays an int, a float sum is rounded. *)
RainSum(l) ==
    IF \E i \in 1..Len(l) : l[i].rain.t = "huge" THEN HugeInt
    ELSE IF \E i \in 1..Len(l) : l[i].rain.t = "float"
         THEN RoundedFloat(SumSeq(MapIntervalRain(l)), 1)
    ELSE [v |-> SumSeq(MapIntervalRain(l)), t |-> "int"]

get_weather_forecast(resp) ==
    IF resp.kind # "ok" THEN FallbackWeather
    ELSE LET forecasts == SubSeq(resp.list, 1, Min2(8, Len(resp.list)))
             n == Len(forecasts)
         IN  IF \E i \in 1..n : ~forecasts[i].valid THEN FallbackWeather
             ELSE IF RainSumRaises(forecasts) THEN FallbackWeather
             ELSE IF n = 0
                  THEN [temp |-> PyInt(0), wind_speed |-> PyFloat(0),
                        precipitation |-> PyInt(0)]
             ELSE [temp |-> RoundedFloat(SumSeq(MapIntervalTemp(forecasts)), n),
                   wind_speed |->
                       RoundedFloat(36 * SumSeq(MapIntervalSpeed(forecasts)), 10 * n),
                   precipitation |-> RainSum(forecasts)]

----------------------------------------------------------------------------
(* Statistics helpers.  A mean is the exact fraction num/den; a standard   *)
(* deviation is carried as its square (the variance), again a fraction,    *)
(* so that z-score comparisons stay in integers.                           *)

RECURSIVE SumSquares(_)
SumSquares(s) == IF s = <<>> THEN 0 ELSE Head(s) * Head(s) + SumSquares(Tail(s))

calculate_mean(values) ==
    IF values = <<>> THEN [num |-> 0, den |-> 1]
    ELSE [num |-> SumSeq(values), den |-> Len(values)]

(* variance = sum((x - mean)^2) / n = (n * sum(x^2) - sum(x)^2) / n^2 *)
calculate_std(values) ==
    IF Len(values) < 2 THEN [num |-> 0, den |-> 1]
    ELSE [num |-> Len(values) * SumSquares(values) - SumSeq(values) * SumSeq(values),
          den |-> Len(values) * Len(values)]

(* Variant: a zero standard deviation counts as an unbounded z-score. *)
ZAboveZeroStdInfinite(cur, mean, stdsq, k) ==
    IF stdsq.num > 0
    THEN (cur * mean.den - mean.num) * (cur * mean.den - mean.num) * stdsq.den
           > k * k * stdsq.num * mean.den * mean.den
    ELSE TRUE

(* abs((cur - mean) / std) > k, with the z-score 0 when std is 0:
   (cur - mean)^2 > k^2 * std^2 on the fractions. *)
ZAbove(cur, mean, stdsq, k) ==
    IF stdsq.num > 0
    THEN (cur * mean.den - mean.num) * (cur * mean.den - mean.num) * stdsq.den
           > k * k * stdsq.num * mean.den * mean.den
    ELSE FALSE

----------------------------------------------------------------------------
(* Anomaly detector                                                        *)

(* The result of a call: the returned pair, or raised = TRUE when an
   exception leaves the function. *)
Returned(sc, fs) == [raised |-> FALSE, score |-> sc, factors |-> fs]

Raised == [raised |-> TRUE, score |-> 0, factors |-> <<>>]

(* Variant: no default message is added. *)
WithDefaultFactorMissing(factors) == factors

(* if not anomaly_factors: append the "within normal range" message *)
WithDefaultFactor(factors) ==
    IF factors = <<>> THEN << "Weather conditions within normal range" >> ELSE factors

detect_weather_anomaly(current_weather, historical_data) ==
    IF historical_data = <<>> THEN Returned(50, << "Limited historical data available" >>)
    ELSE
    LET historical_temps == MapTemp(historical_data)
        historical_winds == MapWind(historical_data)
        historical_precip == MapPrecip(historical_data)
        temp_mean == calculate_mean(historical_temps)
        temp_std == IF Len(historical_temps) > 1 THEN calculate_std(historical_temps)
                    ELSE [num |-> 100 * 100, den |-> 1]
        wind_mean == calculate_mean(historical_winds)
        wind_std == IF Len(historical_winds) > 1 THEN calculate_std(historical_winds)
                    ELSE [num |-> 150 * 150, den |-> 1]
        precip_mean == calculate_mean(historical_precip)
        precip_std == IF Len(historical_precip) > 1 THEN calculate_std(historical_precip)
                      ELSE [num |-> 10 * 10, den |-> 1]
        temp == current_weather.temp
        wind == current_weather.wind_speed
        precip == current_weather.precipitation
        temp_score == IF ZAbove(temp.v, temp_mean, temp_std, 2) THEN 30
                      ELSE IF ZAbove(temp.v, temp_mean, temp_std, 1) THEN 15 ELSE 0
        temp_factors ==
            IF ZAbove(temp.v, temp_mean, temp_std, 2)
            THEN IF temp.v * temp_mean.den < temp_mean.num
                 THEN << "Unusually cold temperature (" \o Fmt(temp) \o "C vs avg "
                           \o FmtFixed1(temp_mean.num, temp_mean.den) \o "C)" >>
                 ELSE << "Unusually hot temperature (" \o Fmt(temp) \o "C vs avg "
                           \o FmtFixed1(temp_mean.num, temp_mean.den) \o "C)" >>
            ELSE <<>>
        wind_score == IF ZAbove(wind.v, wind_mean, wind_std, 2) THEN 35
                      ELSE IF ZAbove(wind.v, wind_mean, wind_std, 1) THEN 20 ELSE 0
        wind_factors ==
            IF ZAbove(wind.v, wind_mean, wind_std, 2)
            THEN << "Unusually high winds (" \o Fmt(wind) \o " km/h vs avg "
                      \o FmtFixed1(wind_mean.num, wind_mean.den) \o " km/h)" >>
            ELSE <<>>
        precip_score == IF ZAbove(precip.v, precip_mean, precip_std, 2) THEN 25
                        ELSE IF ZAbove(precip.v, precip_mean, precip_std, 1) THEN 15 ELSE 0
        precip_factors ==
            IF ZAbove(precip.v, precip_mean, precip_std, 2)
            THEN << "Unusually heavy precipitation (" \o Fmt(precip) \o " mm vs avg "
                      \o FmtFixed1(precip_mean.num, precip_mean.den) \o " mm)" >>
            ELSE <<>>
        anomaly_score == Min2(100, temp_score + wind_score + precip_score)
        anomaly_factors == temp_factors \o wind_factors \o precip_factors
    IN  (* precipitation - precip_mean overflows for an int beyond float range;
           the subtraction is only evaluated when precip_std > 0 *)
        IF precip.t = "huge" /\ precip_std.num > 0 THEN Raised
        ELSE IF precip.t = "huge"
             THEN Returned(Min2(100, temp_score + wind_score),
                           WithDefaultFactor(temp_factors \o wind_factors))
        ELSE Returned(anomaly_score, WithDefaultFactor(anomaly_factors))

----------------------------------------------------------------------------
(* Risk scorer                                                             *)

(* similarity_score * 5000:
   5000 * (0.3*(1 - min(dt/50,1)) + 0.4*(1 - min(dw/100,1)) + 0.3*(1 - min(dp/10,1)))
   with the differences in tenths; 0.6 is 3000 on this scale. *)
similarity_score(outage, current_weather) ==
    LET temp_diff == Abs(outage.temp - current_weather.temp.v)
        wind_diff == Abs(outage.wind_speed - current_weather.wind_speed.v)
        precip_diff == Abs(outage.precipitation - current_weather.precipitation.v)
    IN  3 * (500 - Min2(temp_diff, 500))
          + 2 * (1000 - Min2(wind_diff, 1000))
          + 15 * (100 - Min2(precip_diff, 100))

(* Variant: the threshold is not strict. *)
similar_conditions_inclusive(neighborhood_history, current_weather) ==
    SelectSeq(neighborhood_history,
              LAMBDA o : similarity_score(o, current_weather) >= 3000)

similar_conditions(neighborhood_history, current_weather) ==
    SelectSeq(neighborhood_history,
              LAMBDA o : similarity_score(o, current_weather) > 3000)

RECURSIVE SumSimilarity(_, _)
SumSimilarity(recs, current_weather) ==
    IF recs = <<>> THEN 0
    ELSE similarity_score(Head(recs), current_weather)
           + SumSimilarity(Tail(recs), current_weather)

(* The term added for the historical outage probability, as a fraction. *)
historical_term(neighborhood_history, current_weather) ==
    LET similar == similar_conditions(neighborhood_history, current_weather)
        total_weight == SumSimilarity(similar, current_weather)
        weighted_outage_count ==
            SumSimilarity(SelectSeq(similar, LAMBDA o : o.outage_occurred),
                          current_weather)
    IN  IF similar # <<>>
        THEN IF total_weight > 0
             THEN [num |-> 40 * weighted_outage_count, den |-> total_weight]
             ELSE [num |-> 20, den |-> 1]
        ELSE [num |-> 20, den |-> 1]

env_risk(current_weather) ==
    LET temp == current_weather.temp
        wind == current_weather.wind_speed
        precip == current_weather.precipitation
    IN  (IF NumLt(temp, -50) THEN 15
         ELSE IF NumLt(temp, 0) \/ NumGt(temp, 350) THEN 10
         ELSE IF NumGt(temp, 300) THEN 5 ELSE 0)
        + (IF NumGt(wind, 600) THEN 20
           ELSE IF NumGt(wind, 500) THEN 15
           ELSE IF NumGt(wind, 350) THEN 10 ELSE 0)
        + (IF NumGt(precip, 40) THEN 15
           ELSE IF NumGt(precip, 30) THEN 10
           ELSE IF NumGt(precip, 20) THEN 5 ELSE 0)

(* Variant: the upper clamp is missing. *)
ClampScoreNoCeiling(num, den) ==
    IF num <= 5 * den THEN 5 ELSE num \div den

(* int(min(95, max(5, num/den))) for den > 0: int() truncates, and the
   value is at least 5 when it is truncated. *)
ClampScore(num, den) ==
    IF num >= 95 * den THEN 95
    ELSE IF num <= 5 * den THEN 5
    ELSE num \div den

(* Variant: the detector's no-history answer is passed on instead. *)
LimitedHistoryFromDetector == Returned(50, << "Limited historical data available" >>)

(* return 30, ["Limited historical data for this area"] *)
LimitedHistory == Returned(30, << "Limited historical data for this area" >>)

calculate_risk_score(historical_outages_, neighborhood_id_, current_weather) ==
    LET neighborhood_history ==
            SelectSeq(historical_outages_,
                      LAMBDA o : o.neighborhood_id = neighborhood_id_)
        detected == detect_weather_anomaly(current_weather, neighborhood_history)
        hist == historical_term(neighborhood_history, current_weather)
        neighborhood == FindNeighborhood(neighborhood_id_)
        (* 5 * (vulnerability_factor + infrastructure_factor) *)
        infra5 == IF neighborhood # <<>>
                  THEN 5 * Head(neighborhood).vulnerability_score
                         + Head(neighborhood).infrastructure_age
                  ELSE 0
        (* 5 * (anomaly_score * 0.4 + env_risk * 0.2 + infrastructure) *)
        rest5 == 2 * detected.score + env_risk(current_weather) + infra5
    IN  IF neighborhood_history = <<>>
        THEN LimitedHistory
        ELSE IF detected.raised THEN Raised
        (* wc['precipitation'] - current_weather['precipitation'] overflows *)
        ELSE IF current_weather.precipitation.t = "huge" THEN Raised
        ELSE Returned(ClampScore(rest5 * hist.den + 5 * hist.num, 5 * hist.den),
                      detected.factors)

----------------------------------------------------------------------------
(* Explanation generator                                                   *)

(* "Low" if risk_score < 40 else "Moderate" if risk_score < 70 else "High" *)
RiskLevel(risk_score_) ==
    IF risk_score_ < 40 THEN "Low" ELSE IF risk_score_ < 70 THEN "Moderate" ELSE "High"

(* Variant: the lower threshold is inclusive. *)
FallbackBandInclusive(risk_score_) ==
    IF risk_score_ <= 40 THEN "Low" ELSE IF risk_score_ < 70 THEN "Moderate" ELSE "High"

(* The branch of generate_fallback_explanation: if < 40 / elif < 70 / else *)
FallbackBand(risk_score_) ==
    IF risk_score_ < 40 THEN "Low" ELSE IF risk_score_ < 70 THEN "Moderate" ELSE "High"

(* Variant: the generic concern quotes the first anomaly factor. *)
ModerateConcernFromFactors(weather_, anomaly_factors_) ==
    IF NumGt(weather_.wind_speed, 400)
    THEN "high winds of " \o Fmt(weather_.wind_speed) \o " km/h"
    ELSE IF NumLt(weather_.temp, 0)
    THEN "freezing temperatures of " \o Fmt(weather_.temp) \o "C"
    ELSE IF NumGt(weather_.precipitation, 20)
    THEN "heavy precipitation of " \o Fmt(weather_.precipitation) \o " mm"
    ELSE IF anomaly_factors_ # <<>> THEN Head(anomaly_factors_)
    ELSE "concerning weather patterns"

(* The 'concern' phrase of the Moderate branch. *)
ModerateConcern(weather_, anomaly_factors_) ==
    IF NumGt(weather_.wind_speed, 400)
    THEN "high winds of " \o Fmt(weather_.wind_speed) \o " km/h"
    ELSE IF NumLt(weather_.temp, 0)
    THEN "freezing temperatures of " \o Fmt(weather_.temp) \o "C"
    ELSE IF NumGt(weather_.precipitation, 20)
    THEN "heavy precipitation of " \o Fmt(weather_.precipitation) \o " mm"
    ELSE "concerning weather patterns"

generate_fallback_explanation(neighborhood_id_, risk_score_, weather_, anomaly_factors_) ==
    LET neighborhood == FindNeighborhood(neighborhood_id_)
        neighborhood_name == IF neighborhood # <<>> THEN Head(neighborhood).name
                             ELSE "your area"
    IN  IF FallbackBand(risk_score_) = "Low"
        THEN "Low risk of power outage in " \o neighborhood_name
               \o ". Weather conditions are within normal range with "
               \o Fmt(weather_.temp) \o "C and " \o Fmt(weather_.wind_speed)
               \o " km/h winds. No immediate preparation needed, but it's always good to have flashlights and charged devices ready."
        ELSE IF FallbackBand(risk_score_) = "Moderate"
        THEN LET concern == ModerateConcern(weather_, anomaly_factors_)
             IN  "Moderate risk of power outage in " \o neighborhood_name
                   \o ". Our analysis detected " \o concern
                   \o " that may affect power lines. Consider charging essential devices, having flashlights ready, and keeping emergency contacts accessible."
        ELSE LET main_concern ==
                     IF NumGt(weather_.wind_speed, 500)
                     THEN "dangerous wind speeds of " \o Fmt(weather_.wind_speed) \o " km/h"
                     ELSE IF NumLt(weather_.temp, -50)
                     THEN "extreme cold of " \o Fmt(weather_.temp) \o "C"
                     ELSE IF NumGt(weather_.precipitation, 30)
                     THEN "severe precipitation of " \o Fmt(weather_.precipitation) \o " mm"
                     ELSE "severe weather conditions"
                 action ==
                     IF NumGt(weather_.wind_speed, 500)
                     THEN "Secure loose outdoor items and stay indoors"
                     ELSE IF NumLt(weather_.temp, -50)
                     THEN "Prepare extra blankets and heating alternatives"
                     ELSE IF NumGt(weather_.precipitation, 30)
                     THEN "Prepare for possible flooding and power disruptions"
                     ELSE "Take immediate preparatory measures"
             IN  "High risk of power outage in " \o neighborhood_name
                   \o ". Weather analysis shows " \o main_concern
                   \o " that significantly increases outage probability. " \o action
                   \o ". Charge all essential medical devices immediately, prepare backup power sources, and have emergency supplies ready."

(* str.strip() on the generated text (blanks only). *)
RECURSIVE Strip(_)
Strip(s) ==
    IF Len(s) = 0 THEN s
    ELSE IF SubSeq(s, 1, 1) = " " THEN Strip(SubSeq(s, 2, Len(s)))
    ELSE IF SubSeq(s, Len(s), Len(s)) = " " THEN Strip(SubSeq(s, 1, Len(s) - 1))
    ELSE s

(* What requests.post(url, ..., timeout=10) can come back with. *)
TextResponses ==
    { [kind |-> "ok", content |-> c] : c \in { " Stay safe and charge your devices. ", "" } }
    \cup { [kind |-> k, content |-> ""] :
             k \in { "network_error", "timeout", "http_error", "malformed" } }

TokenValues == { "", "your-github-token-here", "ghp_token" }

(* os.getenv('GITHUB_TOKEN') is None or "" (modelled as ""), or the placeholder *)
CredentialUsable(token) == ~(token = "" \/ token = "your-github-token-here")

(* The text and where it came from, given the outcome of the one attempt. *)
generate_explanation_with_ai(token, resp, neighborhood_id_, risk_score_, weather_, anomaly_factors_) ==
    IF ~CredentialUsable(token)
    THEN [source |-> "fallback", attempted |-> FALSE,
          text |-> generate_fallback_explanation(neighborhood_id_, risk_score_,
                                                 weather_, anomaly_factors_)]
    ELSE IF resp.kind = "ok"
    THEN [source |-> "ai", attempted |-> TRUE, text |-> Strip(resp.content)]
    ELSE [source |-> "fallback", attempted |-> TRUE,
          text |-> generate_fallback_explanation(neighborhood_id_, risk_score_,
                                                 weather_, anomaly_factors_)]

----------------------------------------------------------------------------
(* State                                                                   *)

VARIABLES
    historical_outages,   \* the list loaded from historical_outages.json
    github_token,         \* environment variable GITHUB_TOKEN
    pc,                   \* position of the /risk handler
    neighborhood_id,      \* request.args.get('neighborhood_id')
    weather_outcome,      \* what the weather provider call came back with
    weather,              \* local 'weather' of get_risk
    risk_score,           \* local 'risk_score' of get_risk
    anomaly_factors,      \* local 'anomaly_factors' of get_risk
    explanation,          \* local 'explanation' of get_risk, with its source
    response,             \* the HTTP response of the request
    calls,                \* the steps of the request, in order
    ret                   \* the last direct call of a scoring function

vars == << historical_outages, github_token, pc, neighborhood_id, weather_outcome,
           weather, risk_score, anomaly_factors, explanation, response, calls, ret >>

NoArg == [present |-> FALSE, value |-> ""]

RequestArgs ==
    { NoArg } \cup { [present |-> TRUE, value |-> v] : v \in { "", "n1", "n2", "n3", "zz" } }

NoWeather == [temp |-> PyInt(0), wind_speed |-> PyInt(0), precipitation |-> PyInt(0)]

NoExplanation == [source |-> "", attempted |-> FALSE, text |-> ""]

NoResponse ==
    [status |-> 0, error |-> "", neighborhood_id |-> "", neighborhood_name |-> "",
     risk_score |-> 0, risk_level |-> "", explanation |-> "", weather |-> NoWeather,
     anomaly_factors |-> <<>>]

ErrorResponse(code, msg) == [NoResponse EXCEPT !.status = code, !.error = msg]

NoCall ==
    [fn |-> "", neighborhood_id |-> "", weather |-> NoWeather, score_in |-> 0,
     factors_in |-> <<>>, result |-> Returned(0, <<>>), text |-> ""]

Init ==
    /\ historical_outages \in SeqsUpTo(HistCatalogue, MaxHist)
    /\ github_token \in TokenValues
    /\ pc = "idle"
    /\ neighborhood_id = NoArg
    /\ weather_outcome = ""
    /\ weather = NoWeather
    /\ risk_score = 0
    /\ anomaly_factors = <<>>
    /\ explanation = NoExplanation
    /\ response = NoResponse
    /\ calls = <<>>
    /\ ret = NoCall

----------------------------------------------------------------------------
(* GET /risk, step by step                                                 *)

(* get_risk up to the neighborhood lookup: 400, 404, or go on. *)
Request(arg) ==
    /\ pc \in { "idle", "done" }
    /\ neighborhood_id' = arg
    /\ weather_outcome' = ""
    /\ weather' = NoWeather
    /\ risk_score' = 0
    /\ anomaly_factors' = <<>>
    /\ explanation' = NoExplanation
    /\ calls' = <<>>
    /\ IF ~arg.present \/ arg.value = ""
       THEN /\ response' = ErrorResponse(400, "neighborhood_id required")
            /\ pc' = "done"
       ELSE IF FindNeighborhood(arg.value) = <<>>
       THEN /\ response' = ErrorResponse(404, "Neighborhood not found")
            /\ pc' = "done"
       ELSE /\ response' = NoResponse
            /\ pc' = "weather"
    /\ UNCHANGED << historical_outages, github_token, ret >>

(* Variant: a failed provider call is tried once more. *)
FetchWeatherWithRetry(resp) ==
    /\ pc = "weather"
    /\ weather_outcome' = OutcomeOf(resp)
    /\ weather' = get_weather_forecast(resp)
    /\ calls' = Append(calls, "weather_provider")
    /\ pc' = IF resp.kind # "ok" /\ Len(calls) < 1 THEN "weather" ELSE "score"
    /\ UNCHANGED << historical_outages, github_token, neighborhood_id, risk_score,
                    anomaly_factors, explanation, response, ret >>

(* weather = get_weather_forecast(lat, lng): one provider call. *)
FetchWeather(resp) ==
    /\ pc = "weather"
    /\ weather_outcome' = OutcomeOf(resp)
    /\ weather' = get_weather_forecast(resp)
    /\ calls' = Append(calls, "weather_provider")
    /\ pc' = "score"
    /\ UNCHANGED << historical_outages, github_token, neighborhood_id, risk_score,
                    anomaly_factors, explanation, response, ret >>

(* risk_score, anomaly_factors = calculate_risk_score(neighborhood_id, weather);
   an exception raised there leaves get_risk (the server answers 500). *)
ScoreRisk ==
    /\ pc = "score"
    /\ LET r == calculate_risk_score(historical_outages, neighborhood_id.value, weather)
       IN  IF r.raised
           THEN /\ response' = ErrorResponse(500, "OverflowError")
                /\ pc' = "done"
                /\ UNCHANGED << risk_score, anomaly_factors >>
           ELSE /\ risk_score' = r.score
                /\ anomaly_factors' = r.factors
                /\ pc' = "explain"
                /\ UNCHANGED response
    /\ calls' = Append(calls, "risk_score")
    /\ UNCHANGED << historical_outages, github_token, neighborhood_id, weather_outcome,
                    weather, explanation, ret >>

(* The 200 response get_risk assembles. *)
RiskResponse(expl) ==
    [status |-> 200, error |-> "",
     neighborhood_id |-> neighborhood_id.value,
     neighborhood_name |-> Head(FindNeighborhood(neighborhood_id.value)).name,
     risk_score |-> risk_score,
     risk_level |-> RiskLevel(risk_score),
     explanation |-> expl.text,
     weather |-> weather,
     anomaly_factors |-> anomaly_factors]

(* generate_explanation_with_ai without a usable credential, then the
   response: no outbound call. *)
ExplainWithoutCredential ==
    /\ pc = "explain"
    /\ ~CredentialUsable(github_token)
    /\ LET e == generate_explanation_with_ai(github_token, [kind |-> "none", content |-> ""],
                                             neighborhood_id.value, risk_score, weather,
                                             anomaly_factors)
       IN  /\ explanation' = e
           /\ response' = RiskResponse(e)
    /\ pc' = "done"
    /\ UNCHANGED << historical_outages, github_token, neighborhood_id, weather_outcome,
                    weather, risk_score, anomaly_factors, calls, ret >>

(* generate_explanation_with_ai with a credential: one text-generation call,
   its text or the fallback, then the response. *)
ExplainWithAI(resp) ==
    /\ pc = "explain"
    /\ CredentialUsable(github_token)
    /\ LET e == generate_explanation_with_ai(github_token, resp, neighborhood_id.value,
                                             risk_score, weather, anomaly_factors)
       IN  /\ explanation' = e
           /\ response' = RiskResponse(e)
    /\ calls' = Append(calls, "text_generation")
    /\ pc' = "done"
    /\ UNCHANGED << historical_outages, github_token, neighborhood_id, weather_outcome,
                    weather, risk_score, anomaly_factors, ret >>

Next ==
    \/ \E arg \in RequestArgs : Request(arg)
    \/ \E resp \in WeatherResponses : FetchWeather(resp)
    \/ ScoreRisk
    \/ ExplainWithoutCredential
    \/ \E resp \in TextResponses : ExplainWithAI(resp)

Spec == Init /\ [][Next]_vars

----------------------------------------------------------------------------
(* Direct calls of the scoring functions on bounded inputs                 *)

CalcIds == { "n1", "n2", "n3", "zz" }

CalcWeathers ==
    { [temp |-> PyFloat(t), wind_speed |-> PyFloat(w), precipitation |-> p] :
        t \in { -100, 150, 380 }, w \in { 250, 450, 720 },
        p \in { PyFloat(15), PyFloat(50), HugeInt } }

FallbackWeathers ==
    { [temp |-> PyFloat(t), wind_speed |-> PyFloat(w), precipitation |-> PyFloat(p)] :
        t \in { -100, 150 }, w \in { 250, 450, 720 }, p \in { 15, 50 } }

CalcScores == { 5, 39, 40, 69, 70, 95 }

CalcFactors ==
    { << "Weather conditions within normal range" >>,
      << "Unusually high winds (72.0 km/h vs avg 25.0 km/h)",
         "Unusually heavy precipitation (5.0 mm vs avg 1.5 mm)" >> }

HistoryOf(nid) == SelectSeq(historical_outages, LAMBDA o : o.neighborhood_id = nid)

InitCalc ==
    /\ Init
    /\ github_token = ""

CallDetect(nid, w) ==
    /\ ret = NoCall
    /\ ret' = [NoCall EXCEPT !.fn = "detect_weather_anomaly",
                             !.neighborhood_id = nid,
                             !.weather = w,
                             !.result = detect_weather_anomaly(w, HistoryOf(nid))]
    /\ UNCHANGED << historical_outages, github_token, pc, neighborhood_id,
                    weather_outcome, weather, risk_score, anomaly_factors,
                    explanation, response, calls >>

CallCalculate(nid, w) ==
    /\ ret = NoCall
    /\ ret' = [NoCall EXCEPT !.fn = "calculate_risk_score",
                             !.neighborhood_id = nid,
                             !.weather = w,
                             !.result = calculate_risk_score(historical_outages, nid, w)]
    /\ UNCHANGED << historical_outages, github_token, pc, neighborhood_id,
                    weather_outcome, weather, risk_score, anomaly_factors,
                    explanation, response, calls >>

CallFallback(nid, sc, w, fs) ==
    /\ ret = NoCall
    /\ ret' = [NoCall EXCEPT !.fn = "generate_fallback_explanation",
                             !.neighborhood_id = nid,
                             !.weather = w,
                             !.score_in = sc,
                             !.factors_in = fs,
                             !.text = generate_fallback_explanation(nid, sc, w, fs)]
    /\ UNCHANGED << historical_outages, github_token, pc, neighborhood_id,
                    weather_outcome, weather, risk_score, anomaly_factors,
                    explanation, response, calls >>

NextCalc ==
    \/ \E nid \in CalcIds, w \in CalcWeathers : CallDetect(nid, w)
    \/ \E nid \in CalcIds, w \in CalcWeathers : CallCalculate(nid, w)
    \/ \E nid \in { "n1", "zz" }, sc \in CalcScores, w \in FallbackWeathers,
          fs \in CalcFactors : CallFallback(nid, sc, w, fs)

SpecCalc == InitCalc /\ [][NextCalc]_vars

----------------------------------------------------------------------------
(* Properties                                                              *)

IsCall(fn) == ret.fn = fn

(* C1: every score calculate_risk_score returns is an integer between 5 and
   95, on the no-history path and on the full path, for neighborhoods in
   and out of the reference set. *)
RiskScoreWithinBounds ==
    (IsCall("calculate_risk_score") /\ ~ret.result.raised)
        => ret.result.score \in 5..95

(* C1 witness: a full-path score that the ceiling holds at 95. *)
RiskScoreAtCeiling ==
    /\ IsCall("calculate_risk_score")
    /\ ~ret.result.raised
    /\ HistoryOf(ret.neighborhood_id) # <<>>
    /\ ret.result.score = 95

(* C2 (as claimed): the status of a finished /risk request follows from the
   neighborhood_id parameter alone: 400 when it is missing, 404 when it is
   not in the reference set, 200 otherwise, whatever the providers did. *)
StatusDeterminedByNeighborhoodId ==
    pc = "done" =>
        IF ~neighborhood_id.present \/ neighborhood_id.value = ""
        THEN response.status = 400 /\ response.error = "neighborhood_id required"
        ELSE IF \A i \in 1..Len(neighborhoods) : neighborhoods[i].id # neighborhood_id.value
        THEN response.status = 404 /\ response.error = "Neighborhood not found"
        ELSE response.status = 200

(* C3 (as claimed): whenever the weather provider call fails, including a
   response with an absent or empty forecast list, the forecast is the fixed
   fallback, and a 200 response carries it. *)
WeatherFailureYieldsFallback ==
    (weather_outcome \notin { "", "ok" }) =>
        /\ weather = FallbackWeather
        /\ response.status = 200 => response.weather = FallbackWeather

(* The level the thresholds 40 and 70 give a score. *)
LevelOf(s) == IF s < 40 THEN "Low" ELSE IF s >= 70 THEN "High" ELSE "Moderate"

(* The risk band a fallback text announces: its first words. *)
AnnouncedBand(text) ==
    IF SubSeq(text, 1, 8) = "Low risk" THEN "Low"
    ELSE IF SubSeq(text, 1, 13) = "Moderate risk" THEN "Moderate"
    ELSE IF SubSeq(text, 1, 9) = "High risk" THEN "High"
    ELSE "none"

(* C4: in a 200 response risk_level is Low, Moderate or High by the
   thresholds 40 and 70 on risk_score; a fallback explanation announces the
   same band as risk_level, and does so for every score from 5 to 95. *)
RiskLevelMatchesScore ==
    response.status = 200 =>
        /\ response.risk_level = LevelOf(response.risk_score)
        /\ explanation.source = "fallback"
              => AnnouncedBand(response.explanation) = response.risk_level
        /\ \A s \in 5..95 :
              AnnouncedBand(generate_fallback_explanation(
                  response.neighborhood_id, s, response.weather,
                  response.anomaly_factors)) = LevelOf(s)

(* C4 witness: a 200 response with a fallback explanation at High risk. *)
HighRiskFallbackResponse ==
    /\ response.status = 200
    /\ explanation.source = "fallback"
    /\ response.risk_score >= 70
    /\ response.risk_level = "High"

(* C5: detect_weather_anomaly and calculate_risk_score never return an
   empty factor list. *)
FactorsNeverEmpty ==
    ((IsCall("detect_weather_anomaly") \/ IsCall("calculate_risk_score"))
        /\ ~ret.result.raised)
        => Len(ret.result.factors) >= 1

(* C5 witness: the detector found no strong anomaly in a non-empty history
   and returned the default message alone. *)
DefaultFactorReturned ==
    /\ IsCall("detect_weather_anomaly")
    /\ HistoryOf(ret.neighborhood_id) # <<>>
    /\ ~ret.result.raised
    /\ ret.result.factors = << "Weather conditions within normal range" >>

(* C6: with no historical record of the neighborhood, calculate_risk_score
   returns the score 30 and the single factor "Limited historical data for
   this area", whatever the weather and the neighborhood's attributes. *)
NoHistoryShortCircuit ==
    (IsCall("calculate_risk_score")
        /\ \A i \in 1..Len(historical_outages) :
              historical_outages[i].neighborhood_id # ret.neighborhood_id)
        => /\ ~ret.result.raised
           /\ ret.result.score = 30
           /\ ret.result.factors = << "Limited historical data for this area" >>

(* C6 witness: the most vulnerable neighborhood, without records of its own
   while other neighborhoods have some, under storm weather. *)
NoHistoryUnderStorm ==
    /\ IsCall("calculate_risk_score")
    /\ ret.neighborhood_id = "n1"
    /\ historical_outages # <<>>
    /\ HistoryOf("n1") = <<>>
    /\ ret.weather.temp.v = -100
    /\ ret.weather.wind_speed.v = 720
    /\ ret.result.score = 30

(* The bands of the claim: below 40, 40 to 69, 70 and above. *)
BandOf(s) == IF s < 40 THEN 1 ELSE IF s <= 69 THEN 2 ELSE 3

BandSamples == { 5, 20, 39, 40, 55, 69, 70, 80, 95 }

(* C7 (as claimed): the fallback text depends on the score band and the
   weather values alone: a call for any neighborhood id, any score of the
   same band and any factor list returns the same text. *)
FallbackTextByBandAndWeather ==
    IsCall("generate_fallback_explanation") =>
        \A nid \in CalcIds, s \in BandSamples, fs \in CalcFactors :
            BandOf(s) = BandOf(ret.score_in)
                => generate_fallback_explanation(nid, s, ret.weather, fs) = ret.text

(* C7 (amended): for one neighborhood id, the fallback text depends on the
   score band and the weather values alone: any score of the same band and
   any factor list give the same text. *)
FallbackTextByNeighborhoodBandAndWeather ==
    IsCall("generate_fallback_explanation") =>
        \A s \in BandSamples, fs \in CalcFactors :
            BandOf(s) = BandOf(ret.score_in)
                => generate_fallback_explanation(ret.neighborhood_id, s,
                                                 ret.weather, fs) = ret.text

(* C7 witness: a Moderate text with the generic concern, at the top of its
   band, called with a list of two anomaly factors. *)
ModerateGenericFallback ==
    /\ IsCall("generate_fallback_explanation")
    /\ ret.score_in = 69
    /\ Len(ret.factors_in) = 2
    /\ ret.weather.temp.v = 150
    /\ ret.weather.wind_speed.v = 250
    /\ ret.weather.precipitation.v = 15
    /\ AnnouncedBand(ret.text) = "Moderate"

(* Indices of the neighborhood's records that are more than 0.6 similar. *)
Qualifying(h, w) == { i \in 1..Len(h) : similarity_score(h[i], w) > 3000 }

RECURSIVE SimilaritySum(_, _, _)
SimilaritySum(h, w, idx) ==
    IF idx = {} THEN 0
    ELSE LET i == CHOOSE j \in idx : TRUE
         IN  similarity_score(h[i], w) + SimilaritySum(h, w, idx \ { i })

(* C8: a record whose similarity is exactly 0.6 does not enter the outage
   probability; when no record is more than 0.6 similar the historical term
   is the flat 20, otherwise it is 40 times the similarity-weighted share
   of the qualifying records with an outage; and the returned score is the
   one that term gives. *)
HistoricalTermRule ==
    (IsCall("calculate_risk_score") /\ ~ret.result.raised
        /\ HistoryOf(ret.neighborhood_id) # <<>>)
    => LET h == HistoryOf(ret.neighborhood_id)
           w == ret.weather
           q == Qualifying(h, w)
           all == SimilaritySum(h, w, q)
           out == SimilaritySum(h, w, { i \in q : h[i].outage_occurred })
           term == historical_term(h, w)
           num == IF q = {} THEN 20 ELSE 40 * out
           den == IF q = {} THEN 1 ELSE all
           nb == FindNeighborhood(ret.neighborhood_id)
           others5 == 2 * detect_weather_anomaly(w, h).score + env_risk(w)
                        + (IF nb = <<>> THEN 0
                           ELSE 5 * Head(nb).vulnerability_score
                                  + Head(nb).infrastructure_age)
           exact5 == others5 * den + 5 * num
       IN  /\ \A i \in 1..Len(h) :
                 similarity_score(h[i], w) = 3000
                    => \A j \in 1..Len(similar_conditions(h, w)) :
                          similar_conditions(h, w)[j] # h[i]
           /\ Len(similar_conditions(h, w)) = Cardinality(q)
           /\ term.num \div term.den = num \div den
           /\ (term.num % term.den) * den = (num % den) * term.den
           /\ ret.result.score =
                 (IF exact5 >= 95 * 5 * den THEN 95
                  ELSE IF exact5 <= 5 * 5 * den THEN 5
                  ELSE exact5 \div (5 * den))

(* C8 witness: one record exactly 0.6 similar and without outage next to a
   qualifying record with an outage, and a score below the ceiling. *)
BorderlineRecordExcluded ==
    /\ IsCall("calculate_risk_score")
    /\ ~ret.result.raised
    /\ LET h == HistoryOf(ret.neighborhood_id)
       IN  /\ \E i \in 1..Len(h) :
                 /\ similarity_score(h[i], ret.weather) = 3000
                 /\ ~h[i].outage_occurred
           /\ \E i \in 1..Len(h) :
                 /\ similarity_score(h[i], ret.weather) > 3000
                 /\ h[i].outage_occurred
    /\ ret.result.score < 95

(* Two or more records, all with the weather w. *)
UniformHistoryAt(h, w) ==
    /\ Len(h) >= 2
    /\ w.precipitation.t # "huge"
    /\ \A i \in 1..Len(h) :
          /\ h[i].temp = w.temp.v
          /\ h[i].wind_speed = w.wind_speed.v
          /\ h[i].precipitation = w.precipitation.v

(* C9: over two or more records with identical weather and a forecast equal
   to it, detect_weather_anomaly returns the score 0 and the single factor
   "Weather conditions within normal range". *)
UniformHistoryNoAnomaly ==
    (IsCall("detect_weather_anomaly")
        /\ UniformHistoryAt(HistoryOf(ret.neighborhood_id), ret.weather))
        => /\ ~ret.result.raised
           /\ ret.result.score = 0
           /\ ret.result.factors = << "Weather conditions within normal range" >>

(* C9 witness: the detector called on such a history and forecast. *)
UniformHistoryDetected ==
    /\ IsCall("detect_weather_anomaly")
    /\ UniformHistoryAt(HistoryOf(ret.neighborhood_id), ret.weather)
    /\ ret.result.score = 0

Count(s, x) == Cardinality({ i \in 1..Len(s) : s[i] = x })

(* C10: a 400 or 404 request makes no outbound call; a request for a known
   neighborhood makes one weather call, then the score, then at most one
   text-generation call (none without a usable credential); a failed call
   is followed by the fallback, never by a second attempt. *)
SingleAttemptsInOrder ==
    /\ response.status \in { 400, 404 } => calls = <<>>
    /\ calls \in { <<>>, << "weather_provider" >>,
                   << "weather_provider", "risk_score" >>,
                   << "weather_provider", "risk_score", "text_generation" >> }
    /\ pc \in { "score", "explain" } => Count(calls, "weather_provider") = 1
    /\ ~CredentialUsable(github_token) => Count(calls, "text_generation") = 0
    /\ response.status = 200 =>
          calls = IF CredentialUsable(github_token)
                  THEN << "weather_provider", "risk_score", "text_generation" >>
                  ELSE << "weather_provider", "risk_score" >>
    /\ weather_outcome \in FailureKinds =>
          weather = FallbackWeather /\ Count(calls, "weather_provider") = 1
    /\ (explanation.source = "fallback" /\ explanation.attempted) =>
          Count(calls, "text_generation") = 1

(* C10 witness: both providers failed once each and the request finished
   with both fallbacks. *)
BothFallbacksAfterOneAttemptEach ==
    /\ response.status = 200
    /\ weather_outcome = "timeout"
    /\ response.weather = FallbackWeather
    /\ explanation.attempted
    /\ explanation.source = "fallback"
    /\ calls = << "weather_provider", "risk_score", "text_generation" >>

====
